---- MODULE Spec2Model ----
(***************************************************************************)
(* A model of src/main.js, the 3D gradient visualizer: the global STATE,   *)
(* the four function families, the expression evaluator, the plot update   *)
(* and the question lifecycle (generateNewQuestion / checkAnswer).         *)
(*                                                                         *)
(* Numbers.  A JavaScript number is modelled in fixed point: a finite      *)
(* number is [kind |-> "num", v |-> n] where n counts units of 1/SCALE;    *)
(* NaN and the two infinities are values of their own.  The sign of zero   *)
(* is not modelled.  Text (the value of an input field, an expression) is  *)
(* a sequence of one-character strings.                                    *)
(***************************************************************************)
EXTENDS Integers, Sequences, FiniteSets, TLC

\* ------------------------------------------------------------------------
\* Fixed-point numbers
\* ------------------------------------------------------------------------

SCALE == 10 * 10 * 10

Num(n) == [kind |-> "num", v |-> n]
NaN == [kind |-> "nan", v |-> 0]
Infinity == [kind |-> "inf", v |-> 1]
NegInfinity == [kind |-> "inf", v |-> -1]
\* an integer as a number
Int2Num(i) == Num(i * SCALE)

IsNum(a) == a.kind = "num"
IsInf(a) == a.kind = "inf"
\* isNaN(Number(a)): NaN itself, or a function object coerced to a number
IsNaN(a) == a.kind \notin {"num", "inf"}

Sign(n) == IF n > 0 THEN 1 ELSE IF n < 0 THEN -1 ELSE 0
AbsInt(n) == IF n < 0 THEN -n ELSE n

\* n / d rounded to the nearest integer, halves away from zero (d > 0)
RoundDiv(n, d) == Sign(n) * ((2 * AbsInt(n) + d) \div (2 * d))

FMul(a, b) == RoundDiv(a * b, SCALE)
FDiv(a, b) == Sign(b) * RoundDiv(a * SCALE, AbsInt(b))

\* a + b
JsAdd(a, b) ==
    IF IsNaN(a) \/ IsNaN(b) THEN NaN
    ELSE IF IsInf(a) /\ IsInf(b) THEN (IF a.v = b.v THEN a ELSE NaN)
    ELSE IF IsInf(a) THEN a
    ELSE IF IsInf(b) THEN b
    ELSE Num(a.v + b.v)

\* -a
JsNeg(a) ==
    IF IsNaN(a) THEN NaN
    ELSE IF IsInf(a) THEN [kind |-> "inf", v |-> -a.v]
    ELSE Num(-a.v)

\* a - b
JsSub(a, b) == JsAdd(a, JsNeg(b))

\* a * b
JsMul(a, b) ==
    IF IsNaN(a) \/ IsNaN(b) THEN NaN
    ELSE IF IsInf(a) \/ IsInf(b)
         THEN (IF Sign(a.v) * Sign(b.v) = 0 THEN NaN
               ELSE [kind |-> "inf", v |-> Sign(a.v) * Sign(b.v)])
    ELSE Num(FMul(a.v, b.v))

\* a / b
JsDiv(a, b) ==
    IF IsNaN(a) \/ IsNaN(b) THEN NaN
    ELSE IF IsInf(a) /\ IsInf(b) THEN NaN
    ELSE IF IsInf(a) THEN [kind |-> "inf", v |-> a.v * (IF b.v < 0 THEN -1 ELSE 1)]
    ELSE IF IsInf(b) THEN Num(0)
    ELSE IF b.v = 0
         THEN (IF a.v = 0 THEN NaN ELSE [kind |-> "inf", v |-> Sign(a.v)])
    ELSE Num(FDiv(a.v, b.v))

\* base ** k for an integer k >= 0, by repeated multiplication
RECURSIVE PowNat(_, _)
PowNat(base, k) == IF k = 0 THEN Int2Num(1) ELSE JsMul(base, PowNat(base, k - 1))

\* a ** b, for the exponents the model meets: integral ones
JsPow(a, b) ==
    IF IsNaN(b) THEN NaN
    ELSE IF IsNum(b) /\ b.v = 0 THEN Int2Num(1)
    ELSE IF IsNaN(a) THEN NaN
    ELSE IF IsInf(b)
         THEN (IF IsNum(a) /\ AbsInt(a.v) = SCALE THEN NaN
               ELSE IF (IsInf(a) \/ AbsInt(a.v) > SCALE) = (b.v > 0)
                    THEN Infinity ELSE Num(0))
    ELSE IF b.v % SCALE = 0
         THEN (IF b.v > 0 THEN PowNat(a, b.v \div SCALE)
               ELSE JsDiv(Int2Num(1), PowNat(a, (-b.v) \div SCALE)))
    ELSE IF IsNum(a) /\ a.v < 0 THEN NaN
    ELSE IF IsNum(a) /\ a.v = 0 THEN (IF b.v > 0 THEN Num(0) ELSE Infinity)
    ELSE IF IsNum(a) /\ a.v = SCALE THEN Int2Num(1)
    ELSE IF IsInf(a) THEN (IF b.v > 0 THEN Infinity ELSE Num(0))
    ELSE NaN \* a fractional power of a positive number: outside the inputs modelled

\* Math.abs(a)
MathAbs(a) ==
    IF IsNaN(a) THEN NaN
    ELSE IF IsInf(a) THEN Infinity
    ELSE Num(AbsInt(a.v))

\* the greatest r of lo..hi with r * r <= n, by bisection (r * r <= n
\* written as r <= n \div r, which stays within the integers TLC has)
RECURSIVE FloorRoot(_, _, _)
FloorRoot(n, lo, hi) ==
    IF lo = hi THEN lo
    ELSE LET mid == (lo + hi + 1) \div 2
         IN  IF mid <= n \div mid THEN FloorRoot(n, mid, hi)
             ELSE FloorRoot(n, lo, mid - 1)

\* Math.sqrt(a): the floor of the root, in units of 1/SCALE
MathSqrt(a) ==
    IF IsNaN(a) THEN NaN
    ELSE IF IsInf(a) THEN (IF a.v > 0 THEN Infinity ELSE NaN)
    ELSE IF a.v < 0 THEN NaN
    ELSE Num(FloorRoot(a.v * SCALE, 0, a.v + SCALE))

\* Math.sin, Math.cos, Math.tan at whole radians, Math.exp at the arguments
\* -(x*x + y*y)/c of integer points and of (1.5, 0): the values rounded to
\* 1/SCALE
SinTable ==
    (-3000 :> -141) @@ (-2000 :> -909) @@ (-1000 :> -841) @@ (0 :> 0)
 @@ (1000 :> 841) @@ (2000 :> 909) @@ (3000 :> 141)
CosTable ==
    (-3000 :> -990) @@ (-2000 :> -416) @@ (-1000 :> 540) @@ (0 :> 1000)
 @@ (1000 :> 540) @@ (2000 :> -416) @@ (3000 :> -990)
TanTable ==
    (-3000 :> 143) @@ (-2000 :> 2185) @@ (-1000 :> -1557) @@ (0 :> 0)
 @@ (1000 :> 1557) @@ (2000 :> -2185) @@ (3000 :> -143)
ExpTable ==
    (0 :> 1000) @@ (-333 :> 717) @@ (-500 :> 607) @@ (-667 :> 513)
 @@ (-1000 :> 368) @@ (-1333 :> 264) @@ (-1667 :> 189) @@ (-2000 :> 135)
 @@ (-2500 :> 82) @@ (-2667 :> 69) @@ (-3000 :> 50) @@ (-3333 :> 36)
 @@ (-4000 :> 18) @@ (-4333 :> 13) @@ (-4500 :> 11) @@ (-5000 :> 7)
 @@ (-6000 :> 2) @@ (-6500 :> 2) @@ (-8000 :> 0) @@ (-9000 :> 0)
 @@ (-10000 :> 0) @@ (-13000 :> 0) @@ (-18000 :> 0)
 @@ (-750 :> 472) @@ (-1125 :> 325) @@ (-2250 :> 105)
 @@ (1000 :> 2718) @@ (2000 :> 7389) @@ (3000 :> 20086)

\* a tabulated function at a; an argument outside the table is outside the model
Tabulated(table, a) ==
    IF IsNaN(a) \/ IsInf(a) THEN NaN ELSE Num(table[a.v])

MathSin(a) == Tabulated(SinTable, a)
MathCos(a) == Tabulated(CosTable, a)
MathTan(a) == Tabulated(TanTable, a)
MathExp(a) ==
    IF IsNaN(a) THEN NaN
    ELSE IF IsInf(a) THEN (IF a.v > 0 THEN Infinity ELSE Num(0))
    ELSE Num(ExpTable[a.v])

\* ------------------------------------------------------------------------
\* Text
\* ------------------------------------------------------------------------

Digits == <<"0", "1", "2", "3", "4", "5", "6", "7", "8", "9">>
DigitSet == {Digits[i] : i \in 1..10}
DigitValue(c) == (CHOOSE i \in 1..10 : Digits[i] = c) - 1
LetterSet ==
    {"a", "b", "c", "d", "e", "f", "g", "h", "i", "j", "k", "l", "m", "n", "o",
     "p", "q", "r", "s", "t", "u", "v", "w", "x", "y", "z", "A", "B", "C", "D",
     "E", "F", "G", "H", "I", "J", "K", "L", "M", "N", "O", "P", "Q", "R", "S",
     "T", "U", "V", "W", "X", "Y", "Z", "_", "$"}
WhiteSpace == {" "}

\* String.prototype.trim
RECURSIVE TrimLeft(_)
TrimLeft(s) ==
    IF s # <<>> /\ Head(s) \in WhiteSpace THEN TrimLeft(Tail(s)) ELSE s
RECURSIVE TrimRight(_)
TrimRight(s) ==
    IF s # <<>> /\ s[Len(s)] \in WhiteSpace
    THEN TrimRight(SubSeq(s, 1, Len(s) - 1)) ELSE s
Trim(s) == TrimRight(TrimLeft(s))

\* String.prototype.replace with a global pattern of literal characters
RECURSIVE ReplaceAll(_, _, _)
ReplaceAll(s, pat, rep) ==
    IF Len(s) < Len(pat) THEN s
    ELSE IF SubSeq(s, 1, Len(pat)) = pat
         THEN rep \o ReplaceAll(SubSeq(s, Len(pat) + 1, Len(s)), pat, rep)
         ELSE <<Head(s)>> \o ReplaceAll(Tail(s), pat, rep)

\* the decimal digits of a natural number
RECURSIVE NatToString(_)
NatToString(n) ==
    IF n < 10 THEN <<Digits[n + 1]>>
    ELSE NatToString(n \div 10) \o <<Digits[(n % 10) + 1]>>

\* the fraction f/SCALE as decimal digits, trailing zeros dropped (0 < f < SCALE)
FractionToString(f) ==
    LET d1 == f \div 100
        d2 == (f \div 10) % 10
        d3 == f % 10
    IN  IF d3 # 0 THEN <<Digits[d1 + 1], Digits[d2 + 1], Digits[d3 + 1]>>
        ELSE IF d2 # 0 THEN <<Digits[d1 + 1], Digits[d2 + 1]>>
        ELSE <<Digits[d1 + 1]>>

\* String(a), as a template literal `${a}` renders a number
NumberToString(a) ==
    IF IsNaN(a) THEN <<"N", "a", "N">>
    ELSE IF IsInf(a)
         THEN (IF a.v < 0 THEN <<"-">> ELSE <<>>)
              \o <<"I", "n", "f", "i", "n", "i", "t", "y">>
    ELSE (IF a.v < 0 THEN <<"-">> ELSE <<>>)
         \o NatToString(AbsInt(a.v) \div SCALE)
         \o (IF AbsInt(a.v) % SCALE = 0 THEN <<>>
             ELSE <<".">> \o FractionToString(AbsInt(a.v) % SCALE))

\* the first index at or after i whose character is not in set (Len(s) + 1 if none)
RECURSIVE ScanWhile(_, _, _)
ScanWhile(s, i, set) ==
    IF i <= Len(s) /\ s[i] \in set THEN ScanWhile(s, i + 1, set) ELSE i

\* the value of the digits s[i..j-1] (0 when there are none)
RECURSIVE DigitsValue(_, _, _)
DigitsValue(s, i, j) ==
    IF j <= i THEN 0 ELSE DigitsValue(s, i, j - 1) * 10 + DigitValue(s[j - 1])

\* the digits s[i..j-1] read as a fraction, in units of 1/SCALE, rounded
FractionValue(s, i, j) ==
    LET dig(k) == IF i + k < j THEN DigitValue(s[i + k]) ELSE 0
    IN  dig(0) * 100 + dig(1) * 10 + dig(2) + (IF dig(3) >= 5 THEN 1 ELSE 0)

\* parseFloat(s): leading white space, a sign, digits with an optional
\* fraction; NaN when no digit is found.  (Exponents are not modelled.)
parseFloat(s) ==
    LET t == TrimLeft(s)
        neg == t # <<>> /\ Head(t) = "-"
        i0 == IF t # <<>> /\ Head(t) \in {"-", "+"} THEN 2 ELSE 1
        i1 == ScanWhile(t, i0, DigitSet)
        dot == i1 <= Len(t) /\ t[i1] = "."
        i2 == IF dot THEN ScanWhile(t, i1 + 1, DigitSet) ELSE i1
        mag == DigitsValue(t, i0, i1) * SCALE
               + (IF dot THEN FractionValue(t, i1 + 1, i2) ELSE 0)
    IN  IF i1 = i0 /\ (~dot \/ i2 = i1 + 1) THEN NaN
        ELSE Num(IF neg THEN -mag ELSE mag)

\* ------------------------------------------------------------------------
\* Function('"use strict"; return (' + text + ')')(): the JavaScript
\* expression grammar as far as arithmetic goes.  A token is
\* [t, v, s]: a number (t = "num", v its value), an identifier (t = "id",
\* s its characters) or a punctuator (t = "op", s the operator).
\* ------------------------------------------------------------------------

Punctuators == {"+", "-", "*", "/", "(", ")", ".", ","}

\* the tokens of s from index i on, after acc; ok = FALSE on a character
\* that starts no token (a SyntaxError)
RECURSIVE Lex(_, _, _)
Lex(s, i, acc) ==
    IF i > Len(s) THEN [ok |-> TRUE, toks |-> acc]
    ELSE IF s[i] \in WhiteSpace THEN Lex(s, i + 1, acc)
    ELSE IF s[i] \in DigitSet \/ (s[i] = "." /\ i < Len(s) /\ s[i + 1] \in DigitSet)
         THEN LET i1 == ScanWhile(s, i, DigitSet)
                  dot == i1 <= Len(s) /\ s[i1] = "."
                  i2 == IF dot THEN ScanWhile(s, i1 + 1, DigitSet) ELSE i1
                  val == DigitsValue(s, i, i1) * SCALE
                         + (IF dot THEN FractionValue(s, i1 + 1, i2) ELSE 0)
              IN  IF i2 <= Len(s) /\ s[i2] \in LetterSet
                  THEN [ok |-> FALSE, toks |-> acc]
                  ELSE Lex(s, i2, Append(acc, [t |-> "num", v |-> val, s |-> <<>>]))
    ELSE IF s[i] \in LetterSet
         THEN LET j == ScanWhile(s, i, LetterSet \cup DigitSet)
              IN  Lex(s, j, Append(acc, [t |-> "id", v |-> 0,
                                         s |-> SubSeq(s, i, j - 1)]))
    ELSE IF s[i] = "*" /\ i < Len(s) /\ s[i + 1] = "*"
         THEN Lex(s, i + 2, Append(acc, [t |-> "op", v |-> 0, s |-> <<"*", "*">>]))
    ELSE IF s[i] \in Punctuators
         THEN Lex(s, i + 1, Append(acc, [t |-> "op", v |-> 0, s |-> <<s[i]>>]))
    ELSE [ok |-> FALSE, toks |-> acc]

IsOp(toks, p, op) == p <= Len(toks) /\ toks[p].t = "op" /\ toks[p].s = op

\* the members of Math the evaluator's text can name
MathFunctions ==
    {<<"s", "i", "n">>, <<"c", "o", "s">>, <<"t", "a", "n">>,
     <<"s", "q", "r", "t">>, <<"e", "x", "p">>, <<"a", "b", "s">>}

\* a function object of Math, as a value
MathFn(name) == [kind |-> "fn", v |-> CHOOSE i \in 1..6 :
    <<<<"s", "i", "n">>, <<"c", "o", "s">>, <<"t", "a", "n">>,
      <<"s", "q", "r", "t">>, <<"e", "x", "p">>, <<"a", "b", "s">>>>[i] = name]

\* the call f(arg)
Apply(f, arg) ==
    CASE f.v = 1 -> MathSin(arg)
      [] f.v = 2 -> MathCos(arg)
      [] f.v = 3 -> MathTan(arg)
      [] f.v = 4 -> MathSqrt(arg)
      [] f.v = 5 -> MathExp(arg)
      [] f.v = 6 -> MathAbs(arg)

\* a parse: ok = FALSE when the text throws (SyntaxError, ReferenceError,
\* TypeError); otherwise the value and the index of the next token
Thrown == [ok |-> FALSE, val |-> NaN, pos |-> 0]
Parsed(val, pos) == [ok |-> TRUE, val |-> val, pos |-> pos]

\* The parser, by recursive descent: rule names the production, p the index
\* of its first token, left what the production has read so far (for the
\* productions that continue one).
RECURSIVE Parse(_, _, _, _)
Parse(rule, toks, p, left) ==
    CASE rule = "Expression" ->
           \* AssignmentExpression (, AssignmentExpression)*
           LET r == Parse("Additive", toks, p, Thrown)
           IN  IF r.ok THEN Parse("ExpressionRest", toks, r.pos, r) ELSE Thrown
      [] rule = "ExpressionRest" ->
           IF IsOp(toks, p, <<",">>)
           THEN LET r == Parse("Additive", toks, p + 1, Thrown)
                IN  IF r.ok THEN Parse("ExpressionRest", toks, r.pos, r) ELSE Thrown
           ELSE left
      [] rule = "Additive" ->
           LET r == Parse("Multiplicative", toks, p, Thrown)
           IN  IF r.ok THEN Parse("AdditiveRest", toks, r.pos, r) ELSE Thrown
      [] rule = "AdditiveRest" ->
           IF IsOp(toks, p, <<"+">>) \/ IsOp(toks, p, <<"-">>)
           THEN LET r == Parse("Multiplicative", toks, p + 1, Thrown)
                IN  IF ~r.ok THEN Thrown
                    ELSE Parse("AdditiveRest", toks, r.pos,
                               Parsed(IF IsOp(toks, p, <<"+">>)
                                      THEN JsAdd(left.val, r.val)
                                      ELSE JsSub(left.val, r.val), r.pos))
           ELSE left
      [] rule = "Multiplicative" ->
           LET r == Parse("Exponentiation", toks, p, Thrown)
           IN  IF r.ok THEN Parse("MultiplicativeRest", toks, r.pos, r) ELSE Thrown
      [] rule = "MultiplicativeRest" ->
           IF IsOp(toks, p, <<"*">>) \/ IsOp(toks, p, <<"/">>)
           THEN LET r == Parse("Exponentiation", toks, p + 1, Thrown)
                IN  IF ~r.ok THEN Thrown
                    ELSE Parse("MultiplicativeRest", toks, r.pos,
                               Parsed(IF IsOp(toks, p, <<"*">>)
                                      THEN JsMul(left.val, r.val)
                                      ELSE JsDiv(left.val, r.val), r.pos))
           ELSE left
      [] rule = "Exponentiation" ->
           \* a unary operator right before the base of ** is a SyntaxError;
           \* base ** exponent is right-associative
           IF IsOp(toks, p, <<"-">>) \/ IsOp(toks, p, <<"+">>)
           THEN LET r == Parse("Unary", toks, p, Thrown)
                IN  IF ~r.ok \/ IsOp(toks, r.pos, <<"*", "*">>) THEN Thrown ELSE r
           ELSE LET base == Parse("Call", toks, p, Thrown)
                IN  IF ~base.ok THEN Thrown
                    ELSE IF IsOp(toks, base.pos, <<"*", "*">>)
                         THEN LET e == Parse("Exponentiation", toks, base.pos + 1, Thrown)
                              IN  IF e.ok THEN Parsed(JsPow(base.val, e.val), e.pos)
                                  ELSE Thrown
                    ELSE base
      [] rule = "Unary" ->
           \* signs before a call expression
           IF IsOp(toks, p, <<"-">>) \/ IsOp(toks, p, <<"+">>)
           THEN LET r == Parse("Unary", toks, p + 1, Thrown)
                IN  IF ~r.ok THEN Thrown
                    ELSE Parsed(IF IsOp(toks, p, <<"-">>) THEN JsNeg(r.val)
                                ELSE JsAdd(r.val, Num(0)), r.pos)
           ELSE Parse("Call", toks, p, Thrown)
      [] rule = "Call" ->
           \* a primary followed by argument lists
           LET r == Parse("Primary", toks, p, Thrown)
           IN  IF r.ok THEN Parse("CallRest", toks, r.pos, r) ELSE Thrown
      [] rule = "CallRest" ->
           IF IsOp(toks, p, <<"(">>)
           THEN LET args == IF IsOp(toks, p + 1, <<")">>)
                            THEN Parsed(NaN, p + 1)
                            ELSE Parse("Arguments", toks, p + 1, Thrown)
                IN  IF ~args.ok \/ ~IsOp(toks, args.pos, <<")">>) THEN Thrown
                    \* calling what is not a function is a TypeError
                    ELSE IF left.val.kind # "fn" THEN Thrown
                    ELSE Parse("CallRest", toks, args.pos + 1,
                               Parsed(Apply(left.val, args.val), args.pos + 1))
           ELSE left
      [] rule = "Arguments" ->
           \* the Math functions read the first argument
           LET r == Parse("Additive", toks, p, Thrown)
           IN  IF ~r.ok THEN Thrown
               ELSE IF IsOp(toks, r.pos, <<",">>)
                    THEN LET rest == Parse("Arguments", toks, r.pos + 1, Thrown)
                         IN  IF rest.ok THEN Parsed(r.val, rest.pos) ELSE Thrown
               ELSE r
      [] rule = "Primary" ->
           \* a literal, a parenthesised expression, Math.<member>; any other
           \* identifier is taken not to be bound (a ReferenceError)
           IF p > Len(toks) THEN Thrown
           ELSE IF toks[p].t = "num" THEN Parsed(Num(toks[p].v), p + 1)
           ELSE IF IsOp(toks, p, <<"(">>)
                THEN LET r == Parse("Expression", toks, p + 1, Thrown)
                     IN  IF r.ok /\ IsOp(toks, r.pos, <<")">>)
                         THEN Parsed(r.val, r.pos + 1) ELSE Thrown
           ELSE IF /\ toks[p].t = "id"
                   /\ toks[p].s = <<"M", "a", "t", "h">>
                   /\ IsOp(toks, p + 1, <<".">>)
                   /\ p + 2 <= Len(toks)
                   /\ toks[p + 2].t = "id"
                   /\ toks[p + 2].s \in MathFunctions
                THEN Parsed(MathFn(toks[p + 2].s), p + 3)
           ELSE Thrown

\* the value of the JavaScript expression text, NaN standing for a throw
\* (evaluateExpression's catch returns NaN)
EvalJs(text) ==
    LET lexed == Lex(text, 1, <<>>)
        r == IF lexed.ok THEN Parse("Expression", lexed.toks, 1, Thrown) ELSE Thrown
    IN  IF r.ok /\ r.pos = Len(lexed.toks) + 1 THEN r.val ELSE NaN

\* ------------------------------------------------------------------------
\* evaluateExpression and compareAnswers
\* ------------------------------------------------------------------------

\* String(Math.PI) and String(Math.E)
MathPIText ==
    <<"3", ".", "1", "4", "1", "5", "9", "2", "6", "5", "3", "5", "8", "9",
      "7", "9", "3">>
MathEText ==
    <<"2", ".", "7", "1", "8", "2", "8", "1", "8", "2", "8", "4", "5", "9",
      "0", "4", "5">>

\* the chain of replacements of evaluateExpression, in its order
Substituted(expr, x, y) ==
    LET r1 == ReplaceAll(expr, <<"x">>, <<"(">> \o NumberToString(x) \o <<")">>)
        r2 == ReplaceAll(r1, <<"y">>, <<"(">> \o NumberToString(y) \o <<")">>)
        r3 == ReplaceAll(r2, <<"pi_sign">>, MathPIText)
        r4 == ReplaceAll(r3, <<"e">>, MathEText)
        r5 == ReplaceAll(r4, <<"^">>, <<"*", "*">>)
        r6 == ReplaceAll(r5, <<"s", "i", "n">>,
                         <<"M", "a", "t", "h", ".", "s", "i", "n">>)
        r7 == ReplaceAll(r6, <<"c", "o", "s">>,
                         <<"M", "a", "t", "h", ".", "c", "o", "s">>)
        r8 == ReplaceAll(r7, <<"t", "a", "n">>,
                         <<"M", "a", "t", "h", ".", "t", "a", "n">>)
        r9 == ReplaceAll(r8, <<"s", "q", "r", "t">>,
                         <<"M", "a", "t", "h", ".", "s", "q", "r", "t">>)
        r10 == ReplaceAll(r9, <<"e", "x", "p">>,
                          <<"M", "a", "t", "h", ".", "e", "x", "p">>)
    IN  ReplaceAll(r10, <<"a", "b", "s">>,
                   <<"M", "a", "t", "h", ".", "a", "b", "s">>)

\* evaluateExpression(expr, x, y): the substituted text evaluated, NaN when
\* that throws
evaluateExpression(expr, x, y) == EvalJs(Substituted(expr, x, y))

\* a < b on numbers (false when either is NaN)
JsLess(a, b) ==
    IF IsNaN(a) \/ IsNaN(b) THEN FALSE
    ELSE IF IsInf(a) THEN a.v < 0 /\ ~(IsInf(b) /\ b.v < 0)
    ELSE IF IsInf(b) THEN b.v > 0
    ELSE a.v < b.v

\* compareAnswers(userAnswer, correctAnswer, tolerance): both texts are
\* evaluated at the fixed point (1, 1).  No handler calls it.
compareAnswers(userAnswer, correctAnswer, tolerance) ==
    LET userNum == evaluateExpression(userAnswer, Int2Num(1), Int2Num(1))
        correctNum == evaluateExpression(correctAnswer, Int2Num(1), Int2Num(1))
    IN  IF IsNaN(userNum) \/ IsNaN(correctNum) THEN FALSE
        ELSE JsLess(MathAbs(JsSub(userNum, correctNum)), Num(tolerance))

\* ------------------------------------------------------------------------
\* The random source.  Math.random() returns k / RandomDen for a k of
\* RandomOutcomes; RandomDen is a common multiple of the sizes of the
\* ranges drawn from, so that every range is cut at whole numerators.
\* ------------------------------------------------------------------------

RandomDen == 3 * 4 * 5 * 7
RandomOutcomes == {130, 150}

\* Math.floor(Math.random() * n) for the outcome k
RandomIndex(n, k) == (k * n) \div RandomDen

\* a draw over one value too many: Math.floor(Math.random() * (max - min + 2)) + min
RandomDrawWide(min, max, k) == RandomIndex(max - min + 2, k) + min

\* Math.floor(Math.random() * (max - min + 1)) + min for the outcome k
RandomDraw(min, max, k) == RandomIndex(max - min + 1, k) + min

\* randomInt(min, max, exclude): the values the call can return, the loop
\* drawing again while the value drawn is excluded (excluded = {} for null)
randomInt(min, max, excluded) ==
    {RandomDraw(min, max, k) : k \in RandomOutcomes} \ excluded

\* randomPoint()
randomPoint ==
    {[x |-> Int2Num(px), y |-> Int2Num(py)] :
        px \in randomInt(-3, 3, {}), py \in randomInt(-3, 3, {})}

\* ------------------------------------------------------------------------
\* FUNCTIONS: the four families.  An instance is the record of the
\* coefficients generate() drew, tagged with the family whose closures
\* (evaluate, partialXValue, partialYValue) it carries.
\* ------------------------------------------------------------------------

\* Object.keys(FUNCTIONS)
funcKeys == <<"quadratic", "exponential", "sinusoidal", "saddle">>

\* FUNCTIONS[key].generate(): the instances the call can return
generate(key) ==
    CASE key = "quadratic" ->
            {[family |-> key, a |-> a, b |-> b, c |-> c, d |-> d, e |-> e] :
                a \in randomInt(-3, 3, {0}), b \in randomInt(-3, 3, {0}),
                c \in randomInt(-3, 3, {0}), d \in randomInt(-2, 2, {0}),
                e \in randomInt(-2, 2, {0})}
      [] key = "exponential" ->
            {[family |-> key, a |-> a, c |-> c, d |-> d] :
                a \in randomInt(1, 3, {}), c \in randomInt(1, 3, {}),
                d \in randomInt(-2, 2, {0})}
      [] key = "sinusoidal" ->
            {[family |-> key, a |-> a, b |-> b, c |-> c] :
                a \in randomInt(1, 3, {}), b \in randomInt(1, 3, {}),
                c \in randomInt(-2, 2, {0})}
      [] key = "saddle" ->
            {[family |-> key, a |-> a, b |-> b] :
                a \in randomInt(1, 3, {}), b \in randomInt(1, 3, {})}

\* a * b * ... of numbers, left to right as JavaScript evaluates them
Mul3(a, b, c) == JsMul(JsMul(a, b), c)
\* Math.exp(-(x*x + y*y) / c)
Bell(c, x, y) ==
    MathExp(JsDiv(JsNeg(JsAdd(JsMul(x, x), JsMul(y, y))), Int2Num(c)))

\* func.evaluate(x, y)
evaluate(f, x, y) ==
    CASE f.family = "quadratic" ->
            JsAdd(JsAdd(JsAdd(JsAdd(Mul3(Int2Num(f.a), x, x),
                                    Mul3(Int2Num(f.b), x, y)),
                              Mul3(Int2Num(f.c), y, y)),
                        JsMul(Int2Num(f.d), x)),
                  JsMul(Int2Num(f.e), y))
      [] f.family = "exponential" ->
            JsAdd(JsMul(Int2Num(f.a), Bell(f.c, x, y)), Int2Num(f.d))
      [] f.family = "sinusoidal" ->
            JsAdd(JsAdd(JsMul(Int2Num(f.a), MathSin(x)),
                        JsMul(Int2Num(f.b), MathCos(y))),
                  Int2Num(f.c))
      [] f.family = "saddle" ->
            JsSub(Mul3(Int2Num(f.a), x, x), Mul3(Int2Num(f.b), y, y))

\* the derivative of a*x*x taken as a*x
partialXValueHalf(f, x, y) ==
    CASE f.family = "quadratic" ->
            JsAdd(JsAdd(JsMul(Int2Num(f.a), x), JsMul(Int2Num(f.b), y)),
                  Int2Num(f.d))
      [] OTHER -> JsMul(Int2Num(f.a), x)

\* func.partialXValue(x, y)
partialXValue(f, x, y) ==
    CASE f.family = "quadratic" ->
            JsAdd(JsAdd(JsMul(Int2Num(2 * f.a), x), JsMul(Int2Num(f.b), y)),
                  Int2Num(f.d))
      [] f.family = "exponential" ->
            JsMul(JsMul(Int2Num(f.a), Bell(f.c, x, y)),
                  JsDiv(JsMul(Int2Num(-2), x), Int2Num(f.c)))
      [] f.family = "sinusoidal" -> JsMul(Int2Num(f.a), MathCos(x))
      [] f.family = "saddle" -> JsMul(Int2Num(2 * f.a), x)

\* func.partialYValue(x, y)
partialYValue(f, x, y) ==
    CASE f.family = "quadratic" ->
            JsAdd(JsAdd(JsMul(Int2Num(f.b), x), JsMul(Int2Num(2 * f.c), y)),
                  Int2Num(f.e))
      [] f.family = "exponential" ->
            JsMul(JsMul(Int2Num(f.a), Bell(f.c, x, y)),
                  JsDiv(JsMul(Int2Num(-2), y), Int2Num(f.c)))
      [] f.family = "sinusoidal" -> JsMul(Int2Num(-f.b), MathSin(y))
      [] f.family = "saddle" -> JsMul(Int2Num(-2 * f.b), y)

\* ------------------------------------------------------------------------
\* The page: STATE, the elements the handlers read and write, the plot.
\*
\* The learner types into the answer fields right before submitting: the
\* typing is part of the two submit actions.  The question text and the
\* solution markup, which no handler reads back, are left out.
\* ------------------------------------------------------------------------

\* the counters stop here: checkAnswer itself has no limit
MaxAttempted == 2

\* what the learner leaves in #answerDfDx: nothing, a sum with x, a
\* quotient that is undefined at x = -1, an identifier that is not bound
DfDxInputs ==
    { <<>>,
      <<" ", "x", "+", "1", ".", "2", "7", " ">>,
      <<"1", "/", "(", "x", "+", "1", ")">>,
      <<"z">> }

\* what the learner leaves in #answerDfDy: blanks, a multiple of a power of
\* y, a call that is not closed
DfDyInputs ==
    { <<" ">>,
      <<"y", "^", "2", "*", ".", "2", "7">>,
      <<"s", "i", "n", "(">> }

\* what the visitor leaves in #xInput and in #yInput
XTexts == { <<"1", ".", "5">> }
YTexts == { <<>> }

null == [type |-> "null"]

VARIABLES
    currentFunction,  \* STATE.currentFunction
    currentPoint,     \* STATE.currentPoint
    currentQuestion,  \* STATE.currentQuestion
    stats,            \* STATE.stats
    functionSelect,   \* #functionSelect .value
    xInput,           \* #xInput .value
    yInput,           \* #yInput .value
    answerDfDx,       \* #answerDfDx .value
    answerDfDy,       \* #answerDfDy .value
    display,          \* .style.display of the four elements the handlers toggle
    feedback,         \* .className of #feedbackDfDx and #feedbackDfDy
    counts,           \* .textContent of #correctCount and #attemptedCount
    plot,             \* what Plotly.newPlot last drew: the instance and its centre
    listening,        \* the DOMContentLoaded listener has run
    event             \* the function that ran last and how it ended

vars ==
    <<currentFunction, currentPoint, currentQuestion, stats, functionSelect,
      xInput, yInput, answerDfDx, answerDfDy, display, feedback, counts, plot,
      listening, event>>

plotVars == <<currentFunction, currentPoint, functionSelect, xInput, yInput, plot>>
answerVars == <<answerDfDx, answerDfDy>>
quizVars == <<currentQuestion, stats, display, feedback, counts>>
\* all but event
pageVars == <<plotVars, answerVars, quizVars, listening>>

Toggled == {"answerInputArea", "feedbackArea", "submitAnswerBtn", "skipQuestionBtn"}
Families == {funcKeys[i] : i \in 1..Len(funcKeys)}

\* the script has run, the document is not ready yet: STATE as declared, the
\* fields as the page's markup leaves them
Loaded ==
    /\ currentFunction = [key |-> "quadratic", func |-> null]
    /\ currentPoint = [x |-> Int2Num(0), y |-> Int2Num(0)]
    /\ currentQuestion = null
    /\ stats = [correct |-> 0, attempted |-> 0]
    /\ functionSelect \in Families
    /\ xInput \in XTexts
    /\ yInput \in YTexts
    /\ answerDfDx = <<>>
    /\ answerDfDy = <<>>
    /\ display = [id \in Toggled |-> ""]
    /\ feedback = [dfdx |-> "", dfdy |-> ""]
    /\ counts = [correctCount |-> <<"0">>, attemptedCount |-> <<"0">>]
    /\ plot = null
    /\ listening = FALSE

Init ==
    /\ Loaded
    /\ event = [handler |-> "script", outcome |-> "returned"]

\* parseFloat(text) || 0
ParseOrZero(text) ==
    LET n == parseFloat(text)
    IN  IF IsNaN(n) \/ (IsNum(n) /\ n.v = 0) THEN Int2Num(0) ELSE n

\* updatePlot(), the fields holding sel, xs and ys: currentFunc is the
\* instance that FUNCTIONS[sel].generate() returns to it
updatePlot(sel, xs, ys, currentFunc) ==
    /\ currentFunction' = [key |-> sel, func |-> currentFunc]
    /\ currentPoint' = [x |-> ParseOrZero(xs), y |-> ParseOrZero(ys)]
    /\ plot' = [func |-> currentFunc, x |-> ParseOrZero(xs), y |-> ParseOrZero(ys)]
    /\ functionSelect' = sel
    /\ xInput' = xs
    /\ yInput' = ys

\* the listener of DOMContentLoaded: the handlers are registered and the
\* default plot is drawn
DOMContentLoaded ==
    /\ ~listening
    /\ listening' = TRUE
    /\ \E currentFunc \in generate(functionSelect) :
           updatePlot(functionSelect, xInput, yInput, currentFunc)
    /\ event' = [handler |-> "DOMContentLoaded", outcome |-> "returned"]
    /\ UNCHANGED <<quizVars, answerVars>>

\* a click on #updatePlotBtn, the visitor having typed xs and ys into the
\* two fields
UpdatePlotClick ==
    /\ listening
    /\ \E xs \in XTexts, ys \in YTexts :
         \E currentFunc \in generate(functionSelect) :
             updatePlot(functionSelect, xs, ys, currentFunc)
    /\ event' = [handler |-> "updatePlot", outcome |-> "returned"]
    /\ UNCHANGED <<quizVars, answerVars, listening>>

\* a change of #functionSelect to sel
FunctionSelectChange ==
    /\ listening
    /\ \E sel \in Families :
         \E currentFunc \in generate(sel) :
             updatePlot(sel, xInput, yInput, currentFunc)
    /\ event' = [handler |-> "updatePlot", outcome |-> "returned"]
    /\ UNCHANGED <<quizVars, answerVars, listening>>

\* the family the random source picks: funcKeys[Math.floor(Math.random() * 4)]
PickedKeys == {funcKeys[RandomIndex(Len(funcKeys), k) + 1] : k \in RandomOutcomes}

\* a new question that leaves the skip button as it finds it
InputAreaShownOnly(d) ==
    [d EXCEPT !["answerInputArea"] = "flex",
              !["feedbackArea"] = "none",
              !["submitAnswerBtn"] = "block"]

\* the display generateNewQuestion gives the areas and the buttons: the
\* input area and submit shown, the feedback and skip hidden
QuestionDisplay(d) ==
    [d EXCEPT !["answerInputArea"] = "flex",
              !["feedbackArea"] = "none",
              !["submitAnswerBtn"] = "block",
              !["skipQuestionBtn"] = "none"]

\* generateNewQuestion(): funcKey, func and point are what the random
\* source gives; updatePlot() then plots the fields it has set
generateNewQuestion ==
    \E funcKey \in PickedKeys :
      \E func \in generate(funcKey), point \in randomPoint :
        LET question == [functionKey |-> funcKey, func |-> func, point |-> point,
                         answered |-> FALSE, correct |-> "null"]
        IN  /\ currentQuestion' = question
            /\ \E currentFunc \in generate(funcKey) :
                   updatePlot(funcKey, NumberToString(point.x),
                              NumberToString(point.y), currentFunc)
            /\ display' = QuestionDisplay(display)
            /\ answerDfDx' = <<>>
            /\ answerDfDy' = <<>>
            /\ event' = [handler |-> "generateNewQuestion", outcome |-> "returned"]
            /\ UNCHANGED <<stats, feedback, counts>>

\* a click on #newQuestionBtn
NewQuestion ==
    /\ listening
    /\ generateNewQuestion
    /\ UNCHANGED listening

\* a click on #skipQuestionBtn, which a display of none takes off the page
SkipQuestion ==
    /\ listening
    /\ display["skipQuestionBtn"] # "none"
    /\ generateNewQuestion
    /\ UNCHANGED listening

\* const tolerance = 0.05, in units of 1/SCALE
GradeTolerance == 50

\* a check that lets a submit through unless both texts are empty
BothEmpty(userDfDx, userDfDy) == userDfDx = <<>> /\ userDfDy = <<>>

\* !userDfDx || !userDfDy, on the trimmed texts
EmptyInput(userDfDx, userDfDy) == userDfDx = <<>> \/ userDfDy = <<>>

\* a grading at the point of the plot
PlotPoint(question, statePoint) == statePoint

\* the point checkAnswer evaluates at: that of the question
GradingPoint(question, statePoint) == question.point

\* a comparison written as "not too far", which a NaN passes
NotFar(userValue, correctValue) ==
    ~JsLess(Num(GradeTolerance - 1), MathAbs(JsSub(userValue, correctValue)))

\* Math.abs(userValue - correctValue) < tolerance
Matches(userValue, correctValue) ==
    JsLess(MathAbs(JsSub(userValue, correctValue)), Num(GradeTolerance))

\* a grading that one matching partial satisfies
EitherCorrect(dfdxCorrect, dfdyCorrect) == dfdxCorrect \/ dfdyCorrect

\* dfdxCorrect && dfdyCorrect
AllCorrect(dfdxCorrect, dfdyCorrect) == dfdxCorrect /\ dfdyCorrect

\* a counter of consecutive correct answers, which a wrong answer resets
StreakAfter(st, allCorrect) ==
    [correct |-> IF allCorrect THEN st.correct + 1 ELSE 0,
     attempted |-> st.attempted + 1]

\* counters that count an answer as attempted only when it is wrong
MissesAfter(st, allCorrect) ==
    [correct |-> IF allCorrect THEN st.correct + 1 ELSE st.correct,
     attempted |-> IF allCorrect THEN st.attempted ELSE st.attempted + 1]

\* STATE.stats.attempted++; if (allCorrect) STATE.stats.correct++
StatsAfter(st, allCorrect) ==
    [correct |-> IF allCorrect THEN st.correct + 1 ELSE st.correct,
     attempted |-> st.attempted + 1]

\* the class displayFeedback gives a verdict's element
FeedbackClass(isCorrect) ==
    IF isCorrect THEN "feedback-result correct" ELSE "feedback-result incorrect"

\* the value stored in currentQuestion.correct
JsBool(b) == IF b THEN "true" ELSE "false"

\* evaluateExpression(expr, point.x, point.y), computed once for each text
\* the learner can submit and each point the page can hold
EvaluatedTexts == {Trim(text) : text \in DfDxInputs \cup DfDyInputs}
EvaluationPoints ==
    randomPoint
    \cup {[x |-> ParseOrZero(xs), y |-> ParseOrZero(ys)] : xs \in XTexts, ys \in YTexts}
Evaluations ==
    [expr \in EvaluatedTexts, point \in EvaluationPoints |->
        evaluateExpression(expr, point.x, point.y)]

\* the display checkAnswer gives the areas and the buttons: the input area
\* and submit hidden, the feedback and skip shown
FeedbackDisplay(d) ==
    [d EXCEPT !["answerInputArea"] = "none",
              !["feedbackArea"] = "flex",
              !["submitAnswerBtn"] = "none",
              !["skipQuestionBtn"] = "inline-block"]

\* checkAnswer(), the learner having left ux and uy in the answer fields
checkAnswer(ux, uy) ==
    LET userDfDx == Trim(ux)
        userDfDy == Trim(uy)
    IN  /\ answerDfDx' = ux
        /\ answerDfDy' = uy
        /\ IF EmptyInput(userDfDx, userDfDy)
           THEN \* alert(...); return
                /\ event' = [handler |-> "checkAnswer", outcome |-> "alert"]
                /\ UNCHANGED quizVars
           ELSE IF currentQuestion = null
           THEN \* STATE.currentQuestion.func: a TypeError nothing catches
                /\ event' = [handler |-> "checkAnswer", outcome |-> "TypeError"]
                /\ UNCHANGED quizVars
           ELSE LET func == currentQuestion.func
                    point == GradingPoint(currentQuestion, currentPoint)
                    correctDfDx == partialXValue(func, point.x, point.y)
                    correctDfDy == partialYValue(func, point.x, point.y)
                    userDfDxValue == Evaluations[userDfDx, point]
                    userDfDyValue == Evaluations[userDfDy, point]
                    dfdxCorrect == Matches(userDfDxValue, correctDfDx)
                    dfdyCorrect == Matches(userDfDyValue, correctDfDy)
                    allCorrect == AllCorrect(dfdxCorrect, dfdyCorrect)
                IN  /\ stats.attempted < MaxAttempted
                    /\ stats' = StatsAfter(stats, allCorrect)
                    \* updateStats()
                    /\ counts' = [correctCount |-> NatToString(stats'.correct),
                                  attemptedCount |-> NatToString(stats'.attempted)]
                    \* displayFeedback(...)
                    /\ feedback' = [dfdx |-> FeedbackClass(dfdxCorrect),
                                    dfdy |-> FeedbackClass(dfdyCorrect)]
                    /\ currentQuestion' =
                           [currentQuestion EXCEPT !.answered = TRUE,
                                                   !.correct = JsBool(allCorrect)]
                    /\ display' = FeedbackDisplay(display)
                    /\ event' = [handler |-> "checkAnswer", outcome |-> "returned"]

\* a click on #submitAnswerBtn, which a display of none takes off the page
SubmitAnswer ==
    /\ listening
    /\ display["submitAnswerBtn"] # "none"
    /\ \E ux \in DfDxInputs, uy \in DfDyInputs : checkAnswer(ux, uy)
    /\ UNCHANGED <<plotVars, listening>>

\* Enter pressed in #answerDfDx or in #answerDfDy: the listener calls
\* checkAnswer() whatever the state of the question
EnterKey ==
    /\ listening
    /\ \E ux \in DfDxInputs, uy \in DfDyInputs : checkAnswer(ux, uy)
    /\ UNCHANGED <<plotVars, listening>>

Next ==
    \/ DOMContentLoaded
    \/ UpdatePlotClick
    \/ FunctionSelectChange
    \/ NewQuestion
    \/ SkipQuestion
    \/ SubmitAnswer
    \/ EnterKey

Spec == Init /\ [][Next]_vars

\* ------------------------------------------------------------------------
\* The question lifecycle, in the words of the specification
\* ------------------------------------------------------------------------

Idle == currentQuestion = null
Active == currentQuestion # null /\ ~currentQuestion.answered
Graded == currentQuestion # null /\ currentQuestion.answered

\* one of the answer fields trims to nothing
OneInputEmpty == Trim(answerDfDx) = <<>> \/ Trim(answerDfDy) = <<>>

\* a step of checkAnswer; one whose answer fields both hold something; one
\* that ran to its end, and the state it leaves
CheckAnswerStep == event'.handler = "checkAnswer"
SubmitStep == CheckAnswerStep /\ ~OneInputEmpty'
AcceptedStep == CheckAnswerStep /\ event'.outcome = "returned"
Accepted == event = [handler |-> "checkAnswer", outcome |-> "returned"]

\* a step of generateNewQuestion; one of updatePlot called on its own
NewQuestionStep == event'.handler = "generateNewQuestion"
UpdatePlotStep == event'.handler \in {"updatePlot", "DOMContentLoaded"}

Correct == FeedbackClass(TRUE)
Incorrect == FeedbackClass(FALSE)

\* the values a learner's text and the analytic partials take at the
\* point of the question q
UserValueAt(text, q) == evaluateExpression(Trim(text), q.point.x, q.point.y)
CorrectDfDxAt(q) == partialXValue(q.func, q.point.x, q.point.y)
CorrectDfDyAt(q) == partialYValue(q.func, q.point.x, q.point.y)

\* within the tolerance of 0.05
Within(userValue, correctValue) ==
    /\ IsNum(userValue)
    /\ IsNum(correctValue)
    /\ AbsInt(userValue.v - correctValue.v) < GradeTolerance

\* ------------------------------------------------------------------------
\* The claims
\* ------------------------------------------------------------------------

\* C1: a submit with both inputs non-empty on a question that has been
\* graded already, no new question in between, is rejected: stats.attempted
\* and stats.correct keep the values the first submit left.
C1_SecondSubmitKeepsStats ==
    [][(Graded /\ SubmitStep) => stats' = stats]_vars

\* C2: on every accepted submit the partials are graded each on its own,
\* stats.attempted grows by exactly 1, and the question is marked correct
\* and stats.correct grows by 1 if and only if both verdicts match; otherwise
\* correct is false and stats.correct stays.
C2_CorrectIffBothMatch ==
    /\ [](Accepted =>
            LET q == currentQuestion
                dfdxCorrect == Within(UserValueAt(answerDfDx, q), CorrectDfDxAt(q))
                dfdyCorrect == Within(UserValueAt(answerDfDy, q), CorrectDfDyAt(q))
            IN  /\ feedback.dfdx = (IF dfdxCorrect THEN Correct ELSE Incorrect)
                /\ feedback.dfdy = (IF dfdyCorrect THEN Correct ELSE Incorrect)
                /\ q.correct = (IF dfdxCorrect /\ dfdyCorrect THEN "true" ELSE "false"))
    /\ [][AcceptedStep =>
            /\ stats'.attempted = stats.attempted + 1
            /\ stats'.correct = IF currentQuestion'.correct = "true"
                                THEN stats.correct + 1 ELSE stats.correct]_vars

\* C2's case: after a submit that matched both partials, a submit matches
\* df/dx only
C2_OneOfTwoMatched ==
    /\ event = [handler |-> "checkAnswer", outcome |-> "returned"]
    /\ feedback = [dfdx |-> Correct, dfdy |-> Incorrect]
    /\ currentQuestion.correct = "false"
    /\ stats = [correct |-> 1, attempted |-> 2]

\* C3: a learner expression whose evaluation fails (no finite value: the
\* text is malformed, names what is not bound, or is undefined at the
\* point) matches no correct value, and the submit still runs to its end:
\* the question is graded, with correct = false.
C3_FailedEvaluationNeverMatches ==
    /\ []((currentQuestion # null /\ event.handler = "checkAnswer" /\ ~OneInputEmpty) =>
            LET q == currentQuestion
                userDfDxValue == UserValueAt(answerDfDx, q)
                userDfDyValue == UserValueAt(answerDfDy, q)
            IN  /\ ~IsNum(userDfDxValue) =>
                     /\ feedback.dfdx = Incorrect
                     /\ q.correct = "false"
                     /\ \A func \in generate(q.functionKey) :
                            ~Matches(userDfDxValue, CorrectDfDxAt([q EXCEPT !.func = func]))
                /\ ~IsNum(userDfDyValue) =>
                     /\ feedback.dfdy = Incorrect
                     /\ q.correct = "false"
                     /\ \A func \in generate(q.functionKey) :
                            ~Matches(userDfDyValue, CorrectDfDyAt([q EXCEPT !.func = func])))
    /\ [][(currentQuestion # null /\ SubmitStep) =>
            /\ event'.outcome = "returned"
            /\ currentQuestion'.answered]_vars

\* C3's case: a submit of a quotient that is undefined at the point and of
\* a call that is not closed has been graded
C3_FailedEvaluationGraded ==
    /\ event = [handler |-> "checkAnswer", outcome |-> "returned"]
    /\ Graded
    /\ IsInf(UserValueAt(answerDfDx, currentQuestion))
    /\ IsNaN(UserValueAt(answerDfDy, currentQuestion))
    /\ answerDfDy = <<"s", "i", "n", "(">>
    /\ feedback = [dfdx |-> Incorrect, dfdy |-> Incorrect]
    /\ currentQuestion.correct = "false"

\* C4: updatePlot, whatever the family selected and the x and y typed,
\* leaves STATE.currentQuestion and STATE.stats as they are, and a submit
\* evaluates the learner's texts and the analytic partials at the point of
\* the question, not at the point of the plot or at a fixed one.
C4_GradedAtQuestionPoint ==
    /\ [][UpdatePlotStep => (currentQuestion' = currentQuestion /\ stats' = stats)]_vars
    /\ [][AcceptedStep =>
            /\ currentQuestion'.func = currentQuestion.func
            /\ currentQuestion'.point = currentQuestion.point]_vars
    /\ [](Accepted =>
            LET q == currentQuestion
            IN  /\ feedback.dfdx =
                     FeedbackClass(Within(UserValueAt(answerDfDx, q), CorrectDfDxAt(q)))
                /\ feedback.dfdy =
                     FeedbackClass(Within(UserValueAt(answerDfDy, q), CorrectDfDyAt(q))))

\* C4's case: a question is graded correct while the plot shows another
\* family at another point
C4_GradedAwayFromPlot ==
    /\ event = [handler |-> "checkAnswer", outcome |-> "returned"]
    /\ Graded
    /\ currentQuestion.correct = "true"
    /\ currentPoint # currentQuestion.point
    /\ currentFunction.key # currentQuestion.functionKey

\* C5: after every newQuestion the instance that is plotted has the
\* coefficients of STATE.currentQuestion.func.
C5_PlottedInstanceIsQuestionInstance ==
    event.handler = "generateNewQuestion" => plot.func = currentQuestion.func

\* C6: a submit with one of the inputs empty after trimming is rejected:
\* stats, currentQuestion.answered and currentQuestion.correct are as they
\* were and the session stays where it was.
C6_EmptyInputRejected ==
    [][(CheckAnswerStep /\ OneInputEmpty') =>
         /\ event'.outcome = "alert"
         /\ stats' = stats
         /\ currentQuestion' = currentQuestion
         /\ display' = display
         /\ feedback' = feedback
         /\ counts' = counts]_vars

\* C6's case: in Active, a submit of an expression for df/dx and of blanks
\* for df/dy has been rejected
C6_BlankInputRejected ==
    /\ event = [handler |-> "checkAnswer", outcome |-> "alert"]
    /\ Active
    /\ Trim(answerDfDx) # <<>>
    /\ answerDfDy = <<" ">>
    /\ stats.attempted = 1

\* C7: stats.attempted and stats.correct never decrease from one state to
\* the next.
C7_StatsNeverDecrease ==
    [][stats'.attempted >= stats.attempted /\ stats'.correct >= stats.correct]_vars

\* C7's case: two submits, one of them correct, a new question and a new
\* plot have gone by
C7_AfterTwoSubmits ==
    /\ stats = [correct |-> 1, attempted |-> 2]
    /\ Active
    /\ event.handler = "updatePlot"

\* C8: once a question has answered = true, its correct value never
\* changes for as long as it is the current question.
C8_CorrectSetOnce ==
    [][(Graded /\ ~NewQuestionStep) =>
         /\ currentQuestion'.answered
         /\ currentQuestion'.correct = currentQuestion.correct]_vars

\* C9: a submit in Idle with both inputs non-empty is rejected: stats and
\* the session are as they were, and no fault is left uncaught.
C9_IdleSubmitRejected ==
    [][(Idle /\ SubmitStep) =>
         /\ event'.outcome # "TypeError"
         /\ stats' = stats
         /\ currentQuestion' = currentQuestion]_vars

\* C10: while the current question is Active, newQuestion does not replace
\* STATE.currentQuestion.
C10_ActiveQuestionKept ==
    [][(Active /\ NewQuestionStep) => currentQuestion' = currentQuestion]_vars

\* C11: skip is shown only while the current question is graded and submit
\* only while it is not: with a question, an ungraded one has skip hidden
\* and submit shown, a graded one the reverse; every newQuestion hides skip
\* and only an accepted submit shows it.
C11_SkipOnlyWhenGraded ==
    /\ [](/\ display["skipQuestionBtn"] = "inline-block" => Graded
          /\ display["submitAnswerBtn"] = "block" => Active
          /\ Active => display["skipQuestionBtn"] = "none"
          /\ Graded => display["submitAnswerBtn"] = "none")
    /\ [][/\ NewQuestionStep => display'["skipQuestionBtn"] = "none"
          /\ (/\ display'["skipQuestionBtn"] # display["skipQuestionBtn"]
              /\ display'["skipQuestionBtn"] # "none") => AcceptedStep]_vars

\* C11's case: a question has been graded and the next one drawn, which
\* hides skip again
C11_SkipHiddenAgain ==
    /\ Active
    /\ event.handler = "generateNewQuestion"
    /\ stats.attempted = 1
    /\ display["skipQuestionBtn"] = "none"
    /\ display["submitAnswerBtn"] = "block"

\* ------------------------------------------------------------------------
\* evaluateExpression on its own: a call with an expression and a binding
\* of x and y, then its return
\* ------------------------------------------------------------------------

\* x and y range over -MaxCoordinate .. MaxCoordinate
MaxCoordinate == 2
Coordinates == {Int2Num(i) : i \in -MaxCoordinate..MaxCoordinate}

\* the text name(variable)
CallText(name, variable) == name \o <<"(", variable, ")">>

\* the expressions evaluated: the calls of the six functions on x and on y,
\* two quotients, a sum, a call that is not closed, a name that is not bound
Expressions ==
    {CallText(name, variable) : name \in MathFunctions, variable \in {"x", "y"}}
    \cup { <<"1", "/", "x">>, <<"1", "/", "y">>, <<"x", "+", "y">>,
           <<"s", "i", "n", "(">>, <<"z">> }

InitEvaluate ==
    /\ Loaded
    /\ \E expr \in Expressions, x \in Coordinates, y \in Coordinates :
           event = [handler |-> "evaluateExpression", outcome |-> "called",
                    expr |-> expr, x |-> x, y |-> y, value |-> NaN]

\* the call returns
Evaluate ==
    /\ event.handler = "evaluateExpression"
    /\ event.outcome = "called"
    /\ event' = [event EXCEPT !.outcome = "returned",
                              !.value = evaluateExpression(event.expr, event.x, event.y)]
    /\ UNCHANGED pageVars

NextEvaluate == Evaluate

SpecEvaluate == InitEvaluate /\ [][NextEvaluate]_vars

Evaluated == event.handler = "evaluateExpression" /\ event.outcome = "returned"

\* C12: the substitution of x, y and e leaves the names exp, sqrt, sin, cos,
\* tan and abs whole: for every binding, evaluateExpression on the call of
\* one of them on a variable returns the function's value there (exp(x) at
\* x = 0 returns 1).
C12_CallsReturnFunctionValue ==
    Evaluated =>
        \A name \in MathFunctions, variable \in {"x", "y"} :
            event.expr = CallText(name, variable) =>
                event.value = Apply(MathFn(name),
                                    IF variable = "x" THEN event.x ELSE event.y)

\* the expression is not defined at the binding: a division by zero, the
\* square root of a negative number
Undefined(expr, x, y) ==
    \/ expr = <<"1", "/", "x">> /\ x.v = 0
    \/ expr = <<"1", "/", "y">> /\ y.v = 0
    \/ expr = CallText(<<"s", "q", "r", "t">>, "x") /\ x.v < 0
    \/ expr = CallText(<<"s", "q", "r", "t">>, "y") /\ y.v < 0

\* C13: an expression that is not defined at the binding returns an
\* explicit failure: not a number, not Infinity, and not the NaN that a
\* syntax failure returns.
C13_UndefinedIsExplicitFailure ==
    (Evaluated /\ Undefined(event.expr, event.x, event.y)) =>
        event.value.kind \notin {"num", "inf", "nan"}

\* ------------------------------------------------------------------------
\* randomInt on its own, statement by statement: the first draw, the loop
\* that draws again while the value is the excluded one, the return.
\* ------------------------------------------------------------------------

\* every outcome of Math.random(): k / RandomDen for k of AllOutcomes
AllOutcomes == 0..(RandomDen - 1)

\* the calls of randomInt that generate() makes for each family, and those
\* of randomPoint(): the coefficient, min, max and the values excluded
Draw(name, min, max, exclude) ==
    [name |-> name, min |-> min, max |-> max, exclude |-> exclude]
Declared(key) ==
    CASE key = "quadratic" ->
            { Draw("a", -3, 3, {0}), Draw("b", -3, 3, {0}), Draw("c", -3, 3, {0}),
              Draw("d", -2, 2, {0}), Draw("e", -2, 2, {0}) }
      [] key = "exponential" ->
            { Draw("a", 1, 3, {}), Draw("c", 1, 3, {}), Draw("d", -2, 2, {0}) }
      [] key = "sinusoidal" ->
            { Draw("a", 1, 3, {}), Draw("b", 1, 3, {}), Draw("c", -2, 2, {0}) }
      [] key = "saddle" ->
            { Draw("a", 1, 3, {}), Draw("b", 1, 3, {}) }
      [] key = "randomPoint" ->
            { Draw("x", -3, 3, {}), Draw("y", -3, 3, {}) }

\* a call no family makes: the only value of its range is the excluded one
DegenerateDraw == Draw("a", 0, 0, {0})

\* the test of the loop turned round: num !== exclude
NotExcluded(num, exclude) == num \notin exclude

\* num === exclude
Excluded(num, exclude) == num \in exclude

InitRandomInt ==
    /\ Loaded
    /\ \E key \in Families \cup {"randomPoint", "degenerate"} :
         \E draw \in (IF key = "degenerate" THEN {DegenerateDraw} ELSE Declared(key)) :
           event = [handler |-> "randomInt", outcome |-> "called", key |-> key,
                    draw |-> draw, num |-> 0]

\* let num = Math.floor(Math.random() * (max - min + 1)) + min
RandomIntDraw ==
    /\ event.handler = "randomInt"
    /\ event.outcome = "called"
    /\ \E k \in AllOutcomes :
           event' = [event EXCEPT !.outcome = "drawn",
                                  !.num = RandomDraw(event.draw.min, event.draw.max, k)]
    /\ UNCHANGED pageVars

\* while (num === exclude) num = Math.floor(...) + min
RandomIntDrawAgain ==
    /\ event.handler = "randomInt"
    /\ event.outcome = "drawn"
    /\ Excluded(event.num, event.draw.exclude)
    /\ \E k \in AllOutcomes :
           event' = [event EXCEPT !.num = RandomDraw(event.draw.min, event.draw.max, k)]
    /\ UNCHANGED pageVars

\* return num
RandomIntReturn ==
    /\ event.handler = "randomInt"
    /\ event.outcome = "drawn"
    /\ ~Excluded(event.num, event.draw.exclude)
    /\ event' = [event EXCEPT !.outcome = "returned"]
    /\ UNCHANGED pageVars

NextRandomInt ==
    \/ RandomIntDraw
    \/ RandomIntDrawAgain
    \/ RandomIntReturn

SpecRandomInt == InitRandomInt /\ [][NextRandomInt]_vars

Returned == event.handler = "randomInt" /\ event.outcome = "returned"

\* the values a coefficient may take: a closed integer range less the
\* excluded values
Closed(min, max, excluded) == (min..max) \ excluded

\* C14: for every family and every outcome of the random source, each
\* generated coefficient lies in its closed integer range and is never the
\* excluded value: quadratic a, b, c in [-3,3] and d, e in [-2,2], none 0;
\* exponential a, c in [1,3] and d in [-2,2], d not 0; sinusoidal a, b in
\* [1,3] and c in [-2,2], c not 0; saddle a, b in [1,3].
C14_CoefficientsInRange ==
    LET name == event.draw.name
        num == event.num
    IN  /\ (Returned /\ event.key = "quadratic") =>
              /\ name \in {"a", "b", "c"} => num \in Closed(-3, 3, {0})
              /\ name \in {"d", "e"} => num \in Closed(-2, 2, {0})
        /\ (Returned /\ event.key = "exponential") =>
              /\ name \in {"a", "c"} => num \in Closed(1, 3, {})
              /\ name = "d" => num \in Closed(-2, 2, {0})
        /\ (Returned /\ event.key = "sinusoidal") =>
              /\ name \in {"a", "b"} => num \in Closed(1, 3, {})
              /\ name = "c" => num \in Closed(-2, 2, {0})
        /\ (Returned /\ event.key = "saddle") =>
              /\ name \in {"a", "b"} => num \in Closed(1, 3, {})
        /\ { draw.name : draw \in Declared("quadratic") } = {"a", "b", "c", "d", "e"}
        /\ { draw.name : draw \in Declared("exponential") } = {"a", "c", "d"}
        /\ { draw.name : draw \in Declared("sinusoidal") } = {"a", "b", "c"}
        /\ { draw.name : draw \in Declared("saddle") } = {"a", "b"}

\* the last coefficient of the quadratic family returned at the top of its range
C14_QuadraticEdgeReturned ==
    /\ Returned
    /\ event.key = "quadratic"
    /\ event.draw.name = "e"
    /\ event.num = 2

\* ------------------------------------------------------------------------
\* The closures of the polynomial families on their own: evaluate and the
\* two partial derivatives of an instance, at an integer point.
\* ------------------------------------------------------------------------

\* the points tried are the integer points of [-MaxPoint, MaxPoint]^2
MaxPoint == 5

\* every instance generate() can return for the family, over the whole of
\* the random source
Instances(key) ==
    CASE key = "quadratic" ->
            {[family |-> key, a |-> a, b |-> b, c |-> c, d |-> d, e |-> e] :
                a \in Closed(-3, 3, {0}), b \in Closed(-3, 3, {0}),
                c \in Closed(-3, 3, {0}), d \in Closed(-2, 2, {0}),
                e \in Closed(-2, 2, {0})}
      [] key = "exponential" ->
            {[family |-> key, a |-> a, c |-> c, d |-> d] :
                a \in Closed(1, 3, {}), c \in Closed(1, 3, {}),
                d \in Closed(-2, 2, {0})}
      [] key = "sinusoidal" ->
            {[family |-> key, a |-> a, b |-> b, c |-> c] :
                a \in Closed(1, 3, {}), b \in Closed(1, 3, {}),
                c \in Closed(-2, 2, {0})}
      [] key = "saddle" ->
            {[family |-> key, a |-> a, b |-> b] :
                a \in Closed(1, 3, {}), b \in Closed(1, 3, {})}

Polynomials == {"quadratic", "saddle"}

InitClosures ==
    /\ Loaded
    /\ functionSelect = currentFunction.key
    /\ \E key \in Polynomials : \E f \in Instances(key) :
         \E x \in -MaxPoint..MaxPoint, y \in -MaxPoint..MaxPoint :
           event = [handler |-> "closures", outcome |-> "called", f |-> f,
                    x |-> x, y |-> y, value |-> NaN, dfdx |-> NaN, dfdy |-> NaN,
                    east |-> NaN, west |-> NaN, north |-> NaN, south |-> NaN]

\* func.evaluate at the point and at its four neighbours, func.partialXValue
\* and func.partialYValue at the point
CallClosures ==
    /\ event.handler = "closures"
    /\ event.outcome = "called"
    /\ LET f == event.f
           x == event.x
           y == event.y
       IN  event' = [event EXCEPT
                        !.outcome = "returned",
                        !.value = evaluate(f, Int2Num(x), Int2Num(y)),
                        !.dfdx = partialXValue(f, Int2Num(x), Int2Num(y)),
                        !.dfdy = partialYValue(f, Int2Num(x), Int2Num(y)),
                        !.east = evaluate(f, Int2Num(x + 1), Int2Num(y)),
                        !.west = evaluate(f, Int2Num(x - 1), Int2Num(y)),
                        !.north = evaluate(f, Int2Num(x), Int2Num(y + 1)),
                        !.south = evaluate(f, Int2Num(x), Int2Num(y - 1))]
    /\ UNCHANGED pageVars

NextClosures == CallClosures

SpecClosures == InitClosures /\ [][NextClosures]_vars

ClosuresReturned == event.handler = "closures" /\ event.outcome = "returned"

\* C15: for the polynomial families (quadratic, saddle), every instance
\* with coefficients in range and every integer point of [-5,5]^2, the
\* central difference evaluate(x+1, y) - evaluate(x-1, y) is twice
\* partialXValue(x, y), and evaluate(x, y+1) - evaluate(x, y-1) is twice
\* partialYValue(x, y); the saddle with a = 2, b = 1 at (1, -1) has value 1,
\* partialXValue 4 and partialYValue 2.
C15_CentralDifferenceIsTwicePartial ==
    ClosuresReturned =>
        /\ JsSub(event.east, event.west) = JsMul(Int2Num(2), event.dfdx)
        /\ JsSub(event.north, event.south) = JsMul(Int2Num(2), event.dfdy)
        /\ IsNum(event.dfdx) /\ IsNum(event.dfdy) /\ IsNum(event.value)
        /\ (event.f = [family |-> "saddle", a |-> 2, b |-> 1]
                /\ event.x = 1 /\ event.y = -1) =>
              /\ event.value = Int2Num(1)
              /\ event.dfdx = Int2Num(4)
              /\ event.dfdy = Int2Num(2)

\* the saddle 2x^2 - y^2 differentiated at (1, -1)
C15_SaddleDifferentiated ==
    /\ ClosuresReturned
    /\ event.f = [family |-> "saddle", a |-> 2, b |-> 1]
    /\ event.x = 1
    /\ event.y = -1
    /\ event.dfdx = Int2Num(4)

\* ------------------------------------------------------------------------
\* generateGradientArrows(func, x0, y0)
\* ------------------------------------------------------------------------

\* const scale = 0.3
ArrowScale == 300

\* the arrow without the test of the magnitude: the quotient taken always
generateGradientArrowsUnguarded(func, x0, y0) ==
    LET dfdx == partialXValue(func, x0, y0)
        dfdy == partialYValue(func, x0, y0)
        z0 == evaluate(func, x0, y0)
        magnitude == MathSqrt(JsAdd(JsMul(dfdx, dfdx), JsMul(dfdy, dfdy)))
        scaledDfdx == JsMul(JsDiv(dfdx, magnitude), Num(ArrowScale))
        scaledDfdy == JsMul(JsDiv(dfdy, magnitude), Num(ArrowScale))
    IN  [x |-> <<x0, JsAdd(x0, scaledDfdx)>>,
         y |-> <<y0, JsAdd(y0, scaledDfdy)>>,
         z |-> <<z0, z0>>]

\* the trace returned: its x, y and z (the styling is left out)
generateGradientArrows(func, x0, y0) ==
    LET dfdx == partialXValue(func, x0, y0)
        dfdy == partialYValue(func, x0, y0)
        z0 == evaluate(func, x0, y0)
        magnitude == MathSqrt(JsAdd(JsMul(dfdx, dfdx), JsMul(dfdy, dfdy)))
        scaledDfdx == IF JsLess(Int2Num(0), magnitude)
                      THEN JsMul(JsDiv(dfdx, magnitude), Num(ArrowScale))
                      ELSE Int2Num(0)
        scaledDfdy == IF JsLess(Int2Num(0), magnitude)
                      THEN JsMul(JsDiv(dfdy, magnitude), Num(ArrowScale))
                      ELSE Int2Num(0)
    IN  [x |-> <<x0, JsAdd(x0, scaledDfdx)>>,
         y |-> <<y0, JsAdd(y0, scaledDfdy)>>,
         z |-> <<z0, z0>>]

InitArrows ==
    /\ Loaded
    /\ functionSelect = currentFunction.key
    /\ \E key \in Families : \E func \in Instances(key) :
         \E x0 \in Coordinates, y0 \in Coordinates :
           event = [handler |-> "generateGradientArrows", outcome |-> "called",
                    func |-> func, x0 |-> x0, y0 |-> y0,
                    arrow |-> [x |-> <<>>, y |-> <<>>, z |-> <<>>]]

CallArrows ==
    /\ event.handler = "generateGradientArrows"
    /\ event.outcome = "called"
    /\ event' = [event EXCEPT
                    !.outcome = "returned",
                    !.arrow = generateGradientArrows(event.func, event.x0, event.y0)]
    /\ UNCHANGED pageVars

NextArrows == CallArrows

SpecArrows == InitArrows /\ [][NextArrows]_vars

ArrowsReturned ==
    event.handler = "generateGradientArrows" /\ event.outcome = "returned"

\* both partial derivatives are 0 at the point of the call
Stationary ==
    /\ partialXValue(event.func, event.x0, event.y0) = Int2Num(0)
    /\ partialYValue(event.func, event.x0, event.y0) = Int2Num(0)

\* C16: for every instance and point, the gradient segment has the same z,
\* the value of evaluate at the point, at both endpoints, and starts at the
\* point; when both partial derivatives are 0 at the point, the end of the
\* segment equals its start.
C16_ArrowFlatFromPoint ==
    ArrowsReturned =>
        LET arrow == event.arrow
        IN  /\ arrow.z[1] = evaluate(event.func, event.x0, event.y0)
            /\ arrow.z[2] = arrow.z[1]
            /\ IsNum(arrow.z[1])
            /\ arrow.x[1] = event.x0
            /\ arrow.y[1] = event.y0
            /\ Stationary =>
                  /\ arrow.x[2] = arrow.x[1]
                  /\ arrow.y[2] = arrow.y[1]
                  /\ IsNum(arrow.x[2]) /\ IsNum(arrow.y[2])

\* an arrow drawn at a stationary point of a quadratic instance
C16_StationaryArrowDrawn ==
    /\ ArrowsReturned
    /\ Stationary
    /\ event.func.family = "quadratic"

\* ------------------------------------------------------------------------
\* generateSurfaceData(func, x0, y0)
\* ------------------------------------------------------------------------

\* const range = 5
SurfaceRange == 5
\* const step = 0.3
SurfaceStep == 300

\* a <= b on numbers (false when either is NaN)
JsLessEq(a, b) == ~IsNaN(a) /\ ~IsNaN(b) /\ ~JsLess(b, a)

\* for (let i = from; i <= to; i += step) push(i): the values pushed
RECURSIVE Sampled(_, _)
Sampled(i, to) ==
    IF JsLessEq(i, to) THEN <<i>> \o Sampled(JsAdd(i, Num(SurfaceStep)), to)
    ELSE <<>>

\* the samples along one axis around the centre c
Axis(c) == Sampled(JsSub(c, Int2Num(SurfaceRange)), JsAdd(c, Int2Num(SurfaceRange)))

\* the surface with its rows taken along x and its columns along y
generateSurfaceDataTransposed(func, x0, y0) ==
    LET x == Axis(x0)
        y == Axis(y0)
    IN  [x |-> x, y |-> y,
         z |-> [j \in 1..Len(x) |-> [i \in 1..Len(y) |-> evaluate(func, x[j], y[i])]]]

\* { x, y, z }: a row of z for each y, a column for each x
generateSurfaceData(func, x0, y0) ==
    LET x == Axis(x0)
        y == Axis(y0)
    IN  [x |-> x, y |-> y,
         z |-> [j \in 1..Len(y) |-> [i \in 1..Len(x) |-> evaluate(func, x[i], y[j])]]]

\* the instances sampled: the quadratic ones of the session's random source
\* and every saddle (the surfaces of the other two families leave the
\* tabulated arguments of Math.exp, Math.sin and Math.cos)
SurfaceInstances == generate("quadratic") \cup Instances("saddle")

InitSurface ==
    /\ Loaded
    /\ functionSelect = currentFunction.key
    /\ \E func \in SurfaceInstances : \E x0 \in Coordinates, y0 \in Coordinates :
           event = [handler |-> "generateSurfaceData", outcome |-> "called",
                    func |-> func, x0 |-> x0, y0 |-> y0,
                    surface |-> [x |-> <<>>, y |-> <<>>, z |-> <<>>]]

CallSurface ==
    /\ event.handler = "generateSurfaceData"
    /\ event.outcome = "called"
    /\ event' = [event EXCEPT
                    !.outcome = "returned",
                    !.surface = generateSurfaceData(event.func, event.x0, event.y0)]
    /\ UNCHANGED pageVars

NextSurface == CallSurface

SpecSurface == InitSurface /\ [][NextSurface]_vars

SurfaceReturned ==
    event.handler = "generateSurfaceData" /\ event.outcome = "returned"

\* the sequence starts at c - 5, rises by 0.3 from each sample to the next
\* and ends not above c + 5 and not more than one step below it
Stepped(seq, c) ==
    /\ Len(seq) > 0
    /\ seq[1] = JsSub(c, Int2Num(SurfaceRange))
    /\ \A k \in 1..(Len(seq) - 1) : seq[k + 1] = JsAdd(seq[k], Num(SurfaceStep))
    /\ JsLessEq(seq[Len(seq)], JsAdd(c, Int2Num(SurfaceRange)))
    /\ JsLessEq(JsSub(JsAdd(c, Int2Num(SurfaceRange)), seq[Len(seq)]), Num(SurfaceStep))

\* C17: for every instance and centre, the x- and y-sequences of the sampled
\* surface start at centre - 5, increase by the step 0.3 and end within one
\* step of centre + 5 without exceeding it, and z has exactly one row for
\* each y-sample and one column for each x-sample, with
\* z[j][i] = evaluate(x[i], y[j]).
C17_SurfaceGridSampled ==
    SurfaceReturned =>
        LET surface == event.surface
        IN  /\ Stepped(surface.x, event.x0)
            /\ Stepped(surface.y, event.y0)
            /\ Len(surface.z) = Len(surface.y)
            /\ \A j \in 1..Len(surface.y) :
                  /\ Len(surface.z[j]) = Len(surface.x)
                  /\ \A i \in 1..Len(surface.x) :
                        surface.z[j][i] = evaluate(event.func, surface.x[i], surface.y[j])

\* a surface sampled around a centre off the diagonal: 34 samples a side,
\* the last of them 4.9 above the centre
C17_OffDiagonalSurfaceSampled ==
    /\ SurfaceReturned
    /\ event.x0 # event.y0
    /\ Len(event.surface.x) = 34
    /\ Len(event.surface.z) = 34
    /\ event.surface.x[34] = JsAdd(event.x0, Num(4900))

\* ------------------------------------------------------------------------
\* The counters of the session
\* ------------------------------------------------------------------------

\* C18: in every reachable state of the session 0 <= stats.correct <=
\* stats.attempted, and each step changes stats.attempted by at most 1 and
\* stats.correct by at most 1.
C18_CorrectWithinAttempted ==
    /\ [](0 <= stats.correct /\ stats.correct <= stats.attempted)
    /\ [][/\ AbsInt(stats'.attempted - stats.attempted) <= 1
          /\ AbsInt(stats'.correct - stats.correct) <= 1]_vars

\* the first answer submitted was correct and has been counted
C18_FirstAnswerCorrect ==
    /\ Graded
    /\ event.handler = "checkAnswer"
    /\ stats = [correct |-> 1, attempted |-> 1]

\* ------------------------------------------------------------------------
\* Termination of randomInt
\* ------------------------------------------------------------------------

\* the loop draws a value that is not the excluded one
RandomIntDrawOther ==
    /\ RandomIntDrawAgain
    /\ ~Excluded(event'.num, event.draw.exclude)

\* the call runs on while it can, and the random source is fair: a value
\* that every draw can give is given in the end
FairSpecRandomInt ==
    /\ SpecRandomInt
    /\ WF_vars(RandomIntDraw)
    /\ WF_vars(RandomIntReturn)
    /\ SF_vars(RandomIntDrawOther)

\* the range of the call holds nothing but the excluded value
Degenerate ==
    Closed(event.draw.min, event.draw.max, event.draw.exclude) = {}

\* C19: every randomInt call of the four families and of randomPoint (each
\* range holds a value that is not excluded) returns in the end under a
\* fair random source, so that a new question is reached; a call whose
\* range holds only the excluded value never returns.
C19_RandomIntReturns ==
    /\ \A key \in Families \cup {"randomPoint"} : \A draw \in Declared(key) :
          Closed(draw.min, draw.max, draw.exclude) # {}
    /\ (event.handler = "randomInt" /\ ~Degenerate) ~> Returned
    /\ [](Degenerate => ~Returned)

\* the loop holds the excluded value of a family's coefficient and draws again
C19_ExcludedValueDrawn ==
    /\ event.handler = "randomInt"
    /\ event.outcome = "drawn"
    /\ event.key \in Families
    /\ Excluded(event.num, event.draw.exclude)

====
